---- MODULE Spec2Model ----
(***************************************************************************)
(* Zoom interpolation engine of crates/rendering/src/zoom.rs.              *)
(*                                                                         *)
(* The engine is a pure function of (time, segments, cursor_events,        *)
(* ease_in, ease_out).  The state machine below draws these inputs from    *)
(* bounded sets, builds a SegmentsCursor for a query time and then         *)
(* evaluates InterpolatedZoom::new_with_easing on it.                      *)
(*                                                                         *)
(* Numbers.  f64 values are modelled in fixed point, as integer multiples  *)
(* of 1/Scale.  Segment and query times lie on a half-second grid, amounts *)
(* and focus coordinates are small dyadic values, so the products, sums    *)
(* and blends the code computes from them are exact, both in f64 and in    *)
(* the fixed point arithmetic below.  Only the cursor smoothing divides by *)
(* a non-dyadic value (half the 0.15 s window); there the model keeps the  *)
(* exact quotient where f64 rounds it in the last bit.                     *)
(***************************************************************************)
EXTENDS Integers, Sequences, FiniteSets, TLC

\* ---------------------------------------------------------------------
\* Bounds of the model
\* ---------------------------------------------------------------------
\* last grid point (in half seconds) at which a segment may end
MaxTick == 4
\* greatest number of segments in a list
MaxSegs == 2
\* the same two bounds for the lists of the chain specification
ChainTick == 5
ChainSegs == 3

\* ---------------------------------------------------------------------
\* f64 arithmetic (fixed point)
\* ---------------------------------------------------------------------
\* an f64 value v is the integer v * Scale
Scale == 128 * 5

\* the value n/d
F64(n, d) == (n * Scale) \div d

Add(a, b) == a + b
Sub(a, b) == a - b
Mul(a, b) == (a * b) \div Scale
Div(a, b) == (a * Scale) \div b
Lt(a, b)  == a < b
Le(a, b)  == a <= b
FAbs(a)   == IF a < 0 THEN -a ELSE a
Min(a, b) == IF b < a THEN b ELSE a

Zero == F64(0, 1)
One  == F64(1, 1)
Half == F64(1, 2)

\* `x as f32` for 0 <= x <= 1.  The cast is applied to clamp01 of a
\* difference of grid times, a multiple of 1/2, which f32 represents
\* exactly; on any other value of the model it would move the value by less
\* than 2^-24 of itself, far below 1/Scale.  The widening `as f64` that
\* follows the easing call is exact.
AsF32(a) == a

\* ---------------------------------------------------------------------
\* XY<f64> and SegmentBounds
\* ---------------------------------------------------------------------
XY(x, y) == [x |-> x, y |-> y]
XYScale(p, f) == XY(Mul(p.x, f), Mul(p.y, f))
XYAdd(p, q) == XY(Add(p.x, q.x), Add(p.y, q.y))
XYSub(p, q) == XY(Sub(p.x, q.x), Sub(p.y, q.y))

SegmentBoundsNew(top_left, bottom_right) ==
    [top_left |-> top_left, bottom_right |-> bottom_right]

SegmentBoundsDefault == SegmentBoundsNew(XY(Zero, Zero), XY(One, One))

\* ---------------------------------------------------------------------
\* Program constants
\* ---------------------------------------------------------------------
ZOOM_DURATION == F64(1, 1)
CURSOR_SMOOTHING_WINDOW == F64(15, 100)

\* Option<T>: <<>> is None, <<v>> is Some(v)
None == <<>>
Some(v) == <<v>>
IsSome(o) == Len(o) = 1
Unwrap(o) == o[1]

\* ---------------------------------------------------------------------
\* SegmentsCursor::new
\* ---------------------------------------------------------------------
\* variant: the start of a segment counts as inside it
InSegment_StartIncluded(time, s) == Le(s.start, time) /\ Le(time, s.end)

\* the predicate of `.position(..)`: start excluded, end included
InSegment(time, s) == Lt(s.start, time) /\ Le(time, s.end)

\* `.iter().position(..)`: index of the first segment holding time, 0 if none
Position(time, segments) ==
    LET hits == {i \in 1..Len(segments) : InSegment(time, segments[i])}
    IN  IF hits = {} THEN 0 ELSE CHOOSE i \in hits : \A j \in hits : i <= j

\* `.iter().enumerate().rev().find(..)`: the last segment with end <= time
LastEnded(time, segments) ==
    LET done == {i \in 1..Len(segments) : Le(segments[i].end, time)}
    IN  IF done = {} THEN None
        ELSE Some(segments[CHOOSE i \in done : \A j \in done : j <= i])

SegmentsCursorNew(time, segments) ==
    LET segment_index == Position(time, segments)
    IN  IF segment_index # 0
        THEN [time |-> time,
              segment |-> Some(segments[segment_index]),
              prev_segment |-> IF segment_index > 1
                               THEN Some(segments[segment_index - 1])
                               ELSE None,
              segments |-> segments]
        ELSE [time |-> time,
              segment |-> None,
              prev_segment |-> LastEnded(time, segments),
              segments |-> segments]

\* ---------------------------------------------------------------------
\* get_smoothed_cursor_position
\* ---------------------------------------------------------------------
\* CursorEvents::cursor_position_at belongs to the cursor-capture
\* collaborator; a track carries its answer in the field position_at
\* (None: no exact position available).
cursor_position_at(events, time) == events.position_at

EventTime(event) == Div(event.process_time_ms, F64(1000, 1))

\* sum of vals[i] over the indices in idx
RECURSIVE SumOver(_, _)
SumOver(vals, idx) ==
    IF idx = {} THEN Zero
    ELSE LET i == CHOOSE k \in idx : \A j \in idx : j <= k
         IN  Add(SumOver(vals, idx \ {i}), vals[i])

\* first branch: triangular-kernel average over the smoothing window
WindowedAverage(events, time, window, pos) ==
    LET half_w     == Div(window, F64(2, 1))
        start_time == Sub(time, half_w)
        end_time   == Add(time, half_w)
        inwin      == {i \in 1..Len(events.moves) :
                          /\ Le(start_time, EventTime(events.moves[i]))
                          /\ Le(EventTime(events.moves[i]), end_time)}
        weight == [i \in inwin |->
                     Sub(One, Min(Div(FAbs(Sub(time, EventTime(events.moves[i]))),
                                         half_w), One))]
        total_weight == SumOver(weight, inwin)
        weighted_x   == SumOver([i \in inwin |-> Mul(events.moves[i].x, weight[i])], inwin)
        weighted_y   == SumOver([i \in inwin |-> Mul(events.moves[i].y, weight[i])], inwin)
    IN  IF inwin # {} /\ Lt(Zero, total_weight)
        THEN Some(XY(Div(weighted_x, total_weight), Div(weighted_y, total_weight)))
        ELSE Some(XY(pos.x, pos.y))

\* variant: an event exactly at time is not taken as the event before
ClosestBefore_Strict(events, time) ==
    LET cand == {i \in 1..Len(events.moves) : Lt(EventTime(events.moves[i]), time)}
    IN  IF cand = {} THEN None
        ELSE Some(events.moves[CHOOSE i \in cand :
                 \A j \in cand :
                    \/ Lt(EventTime(events.moves[j]), EventTime(events.moves[i]))
                    \/ (EventTime(events.moves[j]) = EventTime(events.moves[i]) /\ i <= j)])

\* the loop that keeps the closest event at or before time: the first event
\* with the greatest time among those with event_time <= time
ClosestBefore(events, time) ==
    LET cand == {i \in 1..Len(events.moves) : Le(EventTime(events.moves[i]), time)}
    IN  IF cand = {} THEN None
        ELSE Some(events.moves[CHOOSE i \in cand :
                 \A j \in cand :
                    \/ Lt(EventTime(events.moves[j]), EventTime(events.moves[i]))
                    \/ (EventTime(events.moves[j]) = EventTime(events.moves[i]) /\ i <= j)])

\* the loop that keeps the closest event after time
ClosestAfter(events, time) ==
    LET cand == {i \in 1..Len(events.moves) : ~Le(EventTime(events.moves[i]), time)}
    IN  IF cand = {} THEN None
        ELSE Some(events.moves[CHOOSE i \in cand :
                 \A j \in cand :
                    \/ Lt(EventTime(events.moves[i]), EventTime(events.moves[j]))
                    \/ (EventTime(events.moves[j]) = EventTime(events.moves[i]) /\ i <= j)])

\* second branch: interpolate between the closest events around time
InterpolateNeighbours(events, time) ==
    LET before == ClosestBefore(events, time)
        after  == ClosestAfter(events, time)
    IN  IF IsSome(before) /\ IsSome(after)
        THEN LET t1 == EventTime(Unwrap(before))
                 t2 == EventTime(Unwrap(after))
                 x1 == Unwrap(before).x
                 y1 == Unwrap(before).y
                 x2 == Unwrap(after).x
                 y2 == Unwrap(after).y
                 t_diff == Sub(t2, t1)
             IN  IF Lt(Zero, t_diff)
                 THEN LET factor == Div(Sub(time, t1), t_diff)
                      IN  Some(XY(Add(x1, Mul(Sub(x2, x1), factor)),
                                  Add(y1, Mul(Sub(y2, y1), factor))))
                 ELSE Some(XY(x1, y1))
        ELSE IF IsSome(before) THEN Some(XY(Unwrap(before).x, Unwrap(before).y))
        ELSE IF IsSome(after)  THEN Some(XY(Unwrap(after).x, Unwrap(after).y))
        ELSE None

get_smoothed_cursor_position(events, time, window) ==
    LET exact == cursor_position_at(events, time)
    IN  IF IsSome(exact)
        THEN WindowedAverage(events, time, window, Unwrap(exact))
        ELSE InterpolateNeighbours(events, time)

\* ---------------------------------------------------------------------
\* SegmentBounds::from_segment
\* ---------------------------------------------------------------------
Center == XY(Half, Half)

\* variant: missing cursor data falls back to the origin instead of the centre
FocusPosition_Origin(segment, current_time, cursor_events) ==
    IF segment.mode.kind = "Auto"
    THEN IF IsSome(cursor_events)
         THEN LET pos == get_smoothed_cursor_position(Unwrap(cursor_events),
                                                      current_time,
                                                      CURSOR_SMOOTHING_WINDOW)
              IN  IF IsSome(pos) THEN Unwrap(pos) ELSE XY(Zero, Zero)
         ELSE XY(Zero, Zero)
    ELSE XY(segment.mode.x, segment.mode.y)

\* `let position = match segment.mode { .. }`
FocusPosition(segment, current_time, cursor_events) ==
    IF segment.mode.kind = "Auto"
    THEN IF IsSome(cursor_events)
         THEN LET pos == get_smoothed_cursor_position(Unwrap(cursor_events),
                                                      current_time,
                                                      CURSOR_SMOOTHING_WINDOW)
              IN  IF IsSome(pos) THEN Unwrap(pos) ELSE Center
         ELSE Center
    ELSE XY(segment.mode.x, segment.mode.y)

\* variant: the bottom edge is shifted by the horizontal offset
AnchoredBounds_MixedAxes(position, amount) ==
    LET scaled_center == XY(Mul(position.x, amount), Mul(position.y, amount))
        center_diff   == XY(Sub(scaled_center.x, position.x),
                            Sub(scaled_center.y, position.y))
    IN  SegmentBoundsNew(
            XY(Sub(Zero, center_diff.x), Sub(Zero, center_diff.y)),
            XY(Sub(amount, center_diff.x), Sub(amount, center_diff.x)))

\* variant: the offset is the scaled focus itself, the focus is not taken off
AnchoredBounds_Unanchored(position, amount) ==
    LET scaled_center == XY(Mul(position.x, amount), Mul(position.y, amount))
        center_diff   == XY(scaled_center.x, scaled_center.y)
    IN  SegmentBoundsNew(
            XY(Sub(Zero, center_diff.x), Sub(Zero, center_diff.y)),
            XY(Sub(amount, center_diff.x), Sub(amount, center_diff.y)))

\* the rectangle of magnification `amount` anchored at `position`
AnchoredBounds(position, amount) ==
    LET scaled_center == XY(Mul(position.x, amount), Mul(position.y, amount))
        center_diff   == XY(Sub(scaled_center.x, position.x),
                            Sub(scaled_center.y, position.y))
    IN  SegmentBoundsNew(
            XY(Sub(Zero, center_diff.x), Sub(Zero, center_diff.y)),
            XY(Sub(amount, center_diff.x), Sub(amount, center_diff.y)))

from_segment(segment, current_time, cursor_events) ==
    AnchoredBounds(FocusPosition(segment, current_time, cursor_events), segment.amount)

\* ---------------------------------------------------------------------
\* InterpolatedZoom
\* ---------------------------------------------------------------------
t_clamp(v) == IF Lt(v, Zero) THEN Zero ELSE IF Lt(One, v) THEN One ELSE v

\* variant: the elapsed time is taken with the operands swapped
Eased_Swapped(ease, time, from) ==
    ease[AsF32(t_clamp(Div(Sub(from, time), ZOOM_DURATION)))]

\* `ease(t_clamp((time - from) / ZOOM_DURATION) as f32) as f64`
Eased(ease, time, from) == ease[AsF32(t_clamp(Div(Sub(time, from), ZOOM_DURATION)))]

\* variant: the two weights are exchanged
Blend_Exchanged(a, b, f) == XYAdd(XYScale(a, f), XYScale(b, Sub(One, f)))

\* `a * (1.0 - f) + b * f` on XY<f64>
Blend(a, b, f) == XYAdd(XYScale(a, Sub(One, f)), XYScale(b, f))

\* SegmentBounds::new(a.top_left * (1 - f) + b.top_left * f, ..bottom_right..)
BlendBounds(a, b, f) ==
    SegmentBoundsNew(Blend(a.top_left, b.top_left, f),
                     Blend(a.bottom_right, b.bottom_right, f))

\* variant: the focus of prev_segment is frozen at prev_segment.end
ZoomOutArm_FocusAtEnd(prev_segment, time, cursor_events, ease_out_fn) ==
    LET zoom_t == Eased(ease_out_fn, time, prev_segment.end)
        prev_segment_bounds == from_segment(prev_segment, prev_segment.end, cursor_events)
    IN  [t |-> Sub(One, zoom_t),
         bounds |-> BlendBounds(prev_segment_bounds, SegmentBoundsDefault, zoom_t),
         prev_segment_bounds |-> Some(prev_segment_bounds),
         segment_bounds |-> None,
         nested |-> 0]

\* arm (Some(prev_segment), None): zooming out after prev_segment
ZoomOutArm(prev_segment, time, cursor_events, ease_out_fn) ==
    LET zoom_t == Eased(ease_out_fn, time, prev_segment.end)
        prev_segment_bounds == from_segment(prev_segment, time, cursor_events)
    IN  [t |-> Sub(One, zoom_t),
         bounds |-> BlendBounds(prev_segment_bounds, SegmentBoundsDefault, zoom_t),
         prev_segment_bounds |-> Some(prev_segment_bounds),
         segment_bounds |-> None,
         nested |-> 0]

\* arm (None, Some(segment)): zooming in with nothing before
ZoomInArm(segment, time, cursor_events, ease_in_fn) ==
    LET t == Eased(ease_in_fn, time, segment.start)
        segment_bounds == from_segment(segment, time, cursor_events)
    IN  [t |-> t,
         bounds |-> BlendBounds(SegmentBoundsDefault, segment_bounds, t),
         prev_segment_bounds |-> None,
         segment_bounds |-> Some(segment_bounds),
         nested |-> 0]

\* variant: progress restarts at the boundary of contiguous segments
NoGapArm_Dip(prev_segment_bounds, segment_bounds, zoom_t) ==
    [t |-> zoom_t,
     bounds |-> BlendBounds(prev_segment_bounds, segment_bounds, zoom_t),
     prev_segment_bounds |-> Some(prev_segment_bounds),
     segment_bounds |-> Some(segment_bounds),
     nested |-> 0]

\* arm (Some, Some), `segment.start == prev_segment.end`
NoGapArm(prev_segment_bounds, segment_bounds, zoom_t) ==
    [t |-> One,
     bounds |-> BlendBounds(prev_segment_bounds, segment_bounds, zoom_t),
     prev_segment_bounds |-> Some(prev_segment_bounds),
     segment_bounds |-> Some(segment_bounds),
     nested |-> 0]

\* variant: the zoom-in restarts from the default rectangle
SmallGapArm_FromDefault(min, prev_segment_bounds, segment_bounds, zoom_t) ==
    [t |-> zoom_t,
     bounds |-> BlendBounds(SegmentBoundsDefault, segment_bounds, zoom_t),
     prev_segment_bounds |-> Some(prev_segment_bounds),
     segment_bounds |-> Some(segment_bounds),
     nested |-> min.nested + 1]

\* variant: the interrupted progress is added without being scaled down
SmallGapArm_Unscaled(min, prev_segment_bounds, segment_bounds, zoom_t) ==
    [t |-> Add(min.t, zoom_t),
     bounds |-> BlendBounds(min.bounds, segment_bounds, zoom_t),
     prev_segment_bounds |-> Some(prev_segment_bounds),
     segment_bounds |-> Some(segment_bounds),
     nested |-> min.nested + 1]

\* arm (Some, Some), small gap; min is the nested evaluation at segment.start
SmallGapArm(min, prev_segment_bounds, segment_bounds, zoom_t) ==
    [t |-> Add(Mul(min.t, Sub(One, zoom_t)), zoom_t),
     bounds |-> BlendBounds(min.bounds, segment_bounds, zoom_t),
     prev_segment_bounds |-> Some(prev_segment_bounds),
     segment_bounds |-> Some(segment_bounds),
     nested |-> min.nested + 1]

\* variant: a separate segment still blends from the previous rectangle
SeparateArm_FromPrev(prev_segment_bounds, segment_bounds, zoom_t) ==
    [t |-> zoom_t,
     bounds |-> BlendBounds(prev_segment_bounds, segment_bounds, zoom_t),
     prev_segment_bounds |-> Some(prev_segment_bounds),
     segment_bounds |-> Some(segment_bounds),
     nested |-> 0]

\* arm (Some, Some), entirely separate
SeparateArm(prev_segment_bounds, segment_bounds, zoom_t) ==
    [t |-> zoom_t,
     bounds |-> BlendBounds(SegmentBoundsDefault, segment_bounds, zoom_t),
     prev_segment_bounds |-> Some(prev_segment_bounds),
     segment_bounds |-> Some(segment_bounds),
     nested |-> 0]

\* arm `_`: no segment before or at time
DefaultArm ==
    [t |-> Zero,
     bounds |-> SegmentBoundsDefault,
     prev_segment_bounds |-> None,
     segment_bounds |-> None,
     nested |-> 0]

RECURSIVE new_with_easing(_, _, _, _)

\* variant: the nested evaluation is made at the end of prev_segment
new_with_easing_FromPrevEnd(cursor, cursor_events, ease_in_fn, ease_out_fn) ==
    IF IsSome(cursor.prev_segment) /\ ~IsSome(cursor.segment)
    THEN ZoomOutArm(Unwrap(cursor.prev_segment), cursor.time, cursor_events, ease_out_fn)
    ELSE IF ~IsSome(cursor.prev_segment) /\ IsSome(cursor.segment)
    THEN ZoomInArm(Unwrap(cursor.segment), cursor.time, cursor_events, ease_in_fn)
    ELSE IF IsSome(cursor.prev_segment) /\ IsSome(cursor.segment)
    THEN LET prev_segment == Unwrap(cursor.prev_segment)
             segment      == Unwrap(cursor.segment)
             prev_segment_bounds == from_segment(prev_segment, cursor.time, cursor_events)
             segment_bounds      == from_segment(segment, cursor.time, cursor_events)
             zoom_t == Eased(ease_in_fn, cursor.time, segment.start)
         IN  IF segment.start = prev_segment.end
             THEN NoGapArm(prev_segment_bounds, segment_bounds, zoom_t)
             ELSE IF Lt(Sub(segment.start, prev_segment.end), ZOOM_DURATION)
             THEN SmallGapArm(
                      new_with_easing(SegmentsCursorNew(prev_segment.end, cursor.segments),
                                      cursor_events, ease_in_fn, ease_out_fn),
                      prev_segment_bounds, segment_bounds, zoom_t)
             ELSE SeparateArm(prev_segment_bounds, segment_bounds, zoom_t)
    ELSE DefaultArm

\* the result carries, besides t and bounds, the two from_segment results of
\* the outermost call and the number of nested evaluations it made
new_with_easing(cursor, cursor_events, ease_in_fn, ease_out_fn) ==
    IF IsSome(cursor.prev_segment) /\ ~IsSome(cursor.segment)
    THEN ZoomOutArm(Unwrap(cursor.prev_segment), cursor.time, cursor_events, ease_out_fn)
    ELSE IF ~IsSome(cursor.prev_segment) /\ IsSome(cursor.segment)
    THEN ZoomInArm(Unwrap(cursor.segment), cursor.time, cursor_events, ease_in_fn)
    ELSE IF IsSome(cursor.prev_segment) /\ IsSome(cursor.segment)
    THEN LET prev_segment == Unwrap(cursor.prev_segment)
             segment      == Unwrap(cursor.segment)
             prev_segment_bounds == from_segment(prev_segment, cursor.time, cursor_events)
             segment_bounds      == from_segment(segment, cursor.time, cursor_events)
             zoom_t == Eased(ease_in_fn, cursor.time, segment.start)
         IN  IF segment.start = prev_segment.end
             THEN NoGapArm(prev_segment_bounds, segment_bounds, zoom_t)
             ELSE IF Lt(Sub(segment.start, prev_segment.end), ZOOM_DURATION)
             THEN SmallGapArm(
                      new_with_easing(SegmentsCursorNew(segment.start, cursor.segments),
                                      cursor_events, ease_in_fn, ease_out_fn),
                      prev_segment_bounds, segment_bounds, zoom_t)
             ELSE SeparateArm(prev_segment_bounds, segment_bounds, zoom_t)
    ELSE DefaultArm

\* the multiplier applied to the display width/height
display_amount(z) == XYSub(z.bounds.bottom_right, z.bounds.top_left).x

\* ---------------------------------------------------------------------
\* Inputs
\* ---------------------------------------------------------------------
Tick(k) == F64(k, 2)

Auto == [kind |-> "Auto"]
Manual(x, y) == [kind |-> "Manual", x |-> x, y |-> y]

\* (amount, mode) of the segments: a magnifying cursor-tracking segment, a
\* magnifying segment with a fixed off-centre focus, and a segment of
\* amount 1 (the least amount)
SegmentKinds ==
    { <<F64(2, 1), Auto>>, <<F64(2, 1), Manual(F64(1, 4), One)>>, <<One, Auto>> }

ZoomSegments ==
    {[start |-> Tick(a), end |-> Tick(b), amount |-> k[1], mode |-> k[2]] :
        a \in 0..MaxTick, b \in 0..MaxTick, k \in SegmentKinds}

\* the precondition on segment lists: end > start, sorted, non-overlapping
WellFormed(segs) ==
    /\ \A i \in 1..Len(segs) : Lt(segs[i].start, segs[i].end)
    /\ \A i \in 1..Len(segs) - 1 : Le(segs[i].end, segs[i + 1].start)

SegmentLists ==
    UNION {{segs \in [1..n -> ZoomSegments] : WellFormed(segs)} : n \in 0..MaxSegs}

\* the times at which a frame is requested
QueryTimes == {Tick(k) : k \in 0..MaxTick + 2}

Move(ms, x, y) == [process_time_ms |-> ms, x |-> x, y |-> y]

\* Option<&CursorEvents>: no track; an empty track; a track of two moves
\* without exact lookup; a track with an exact lookup and two moves that
\* fall into one smoothing window
CursorTracks ==
    { None,
      Some([moves |-> <<>>, position_at |-> None]),
      Some([moves |-> <<Move(F64(1000, 1), Zero, Zero), Move(F64(2000, 1), One, Half)>>,
            position_at |-> None]),
      Some([moves |-> <<Move(F64(1000, 1), Zero, One), Move(F64(2075, 2), F64(3, 4), One)>>,
            position_at |-> Some(XY(Half, Zero))]) }

\* easing functions on the values clamp01 takes on the grid
EaseDomain == {Tick(k) : k \in 0..2}
\* a slow start that reaches 1, like the cubic bezier curves of
\* InterpolatedZoom::new, and a curve that maps [0,1] into [1/4, 3/4]
SlowIn  == [v \in EaseDomain |-> IF v = Half THEN F64(1, 4) ELSE v]
Shifted == [v \in EaseDomain |-> Add(F64(1, 4), Mul(Half, v))]
Easings == {SlowIn, Shifted}

\* ---------------------------------------------------------------------
\* State
\* ---------------------------------------------------------------------
\* time, segments, cursor_events, ease_in, ease_out: the arguments of a frame
\*     request
\* cursor: Option<SegmentsCursor>, the cursor built for the request
\* zoom:   Option<InterpolatedZoom>, the result
\* frame:  the locals prev_segment_bounds and segment_bounds of the outermost
\*     new_with_easing call and the number of nested calls it made
VARIABLES time, segments, cursor_events, ease_in, ease_out, cursor, zoom, frame

vars == <<time, segments, cursor_events, ease_in, ease_out, cursor, zoom, frame>>

inputs == <<time, segments, cursor_events, ease_in, ease_out>>

\* the inputs of one frame request; nothing is computed yet
Init ==
    /\ time \in QueryTimes
    /\ segments \in SegmentLists
    /\ cursor_events \in CursorTracks
    /\ ease_in \in Easings
    /\ ease_out \in Easings
    /\ cursor = None
    /\ zoom = None
    /\ frame = None

\* SegmentsCursor::new(time, &segments)
NewCursor ==
    /\ cursor = None
    /\ cursor' = Some(SegmentsCursorNew(time, segments))
    /\ UNCHANGED <<inputs, zoom, frame>>

\* InterpolatedZoom::new_with_easing(cursor, cursor_events, ease_in, ease_out)
NewWithEasing ==
    /\ IsSome(cursor)
    /\ zoom = None
    /\ \E r \in {new_with_easing(Unwrap(cursor), cursor_events, ease_in, ease_out)} :
           /\ zoom' = Some([t |-> r.t, bounds |-> r.bounds])
           /\ frame' = Some([prev_segment_bounds |-> r.prev_segment_bounds,
                             segment_bounds |-> r.segment_bounds,
                             nested |-> r.nested])
    /\ UNCHANGED <<inputs, cursor>>

Next == NewCursor \/ NewWithEasing

Spec == Init /\ [][Next]_vars

\* ---------------------------------------------------------------------
\* Chains: longer lists of one kind of segment, no cursor track
\* ---------------------------------------------------------------------
ChainSegments ==
    {[start |-> Tick(a), end |-> Tick(b), amount |-> F64(2, 1),
      mode |-> Manual(F64(1, 4), One)] : a \in 0..ChainTick, b \in 0..ChainTick}

ChainLists ==
    UNION {{segs \in [1..n -> ChainSegments] : WellFormed(segs)} : n \in 0..ChainSegs}

ChainTimes == {Tick(k) : k \in 0..ChainTick}

InitChain ==
    /\ time \in ChainTimes
    /\ segments \in ChainLists
    /\ cursor_events = None
    /\ ease_in \in Easings
    /\ ease_out \in Easings
    /\ cursor = None
    /\ zoom = None
    /\ frame = None

SpecChain == InitChain /\ [][Next]_vars

\* ---------------------------------------------------------------------
\* Vocabulary of the properties
\* ---------------------------------------------------------------------
Done == IsSome(zoom)
Z == Unwrap(zoom)
Located == IsSome(cursor)

Duration(s) == Sub(s.end, s.start)
\* gap between segment i and its predecessor in the list
Gap(i) == Sub(segments[i].start, segments[i - 1].end)
\* time lies in (s.start, s.end]
Within(s) == Lt(s.start, time) /\ Le(time, s.end)

Normalised(ease) == ease[Zero] = Zero /\ ease[One] = One

\* clamp01(x) = max(0, min(1, x))
Clamp01(x) == LET m == Min(One, x) IN IF Lt(m, Zero) THEN Zero ELSE m

\* lerp(a, b, f) = a*(1-f) + b*f on corners
LerpXY(a, b, f) ==
    XY(Add(Mul(a.x, Sub(One, f)), Mul(b.x, f)),
       Add(Mul(a.y, Sub(One, f)), Mul(b.y, f)))
Lerp(a, b, f) ==
    [top_left |-> LerpXY(a.top_left, b.top_left, f),
     bottom_right |-> LerpXY(a.bottom_right, b.bottom_right, f)]

DefaultRect == [top_left |-> XY(Zero, Zero), bottom_right |-> XY(One, One)]

\* bounds_for(s, t, track) on the track of the state
BoundsFor(s, t) == from_segment(s, t, cursor_events)

\* progress of a transition that began at `from`
Progress(ease, from) == ease[Clamp01(Div(Sub(time, from), ZOOM_DURATION))]

\* ---------------------------------------------------------------------
\* C1
\* ---------------------------------------------------------------------
\* C1 (as stated): for every segment s, whatever its duration, and easings
\* with ease(0)=0, ease(1)=1, the zoom at time == s.end has t = 1 and
\* bounds = bounds_for(s, time, track).
C1_AnyDuration ==
    Done /\ Normalised(ease_in) /\ Normalised(ease_out) =>
        \A i \in 1..Len(segments) :
            segments[i].end = time =>
                /\ Z.t = One
                /\ Z.bounds = BoundsFor(segments[i], time)

\* C1 (amended): for every segment s that lasts at least ZOOM_DURATION, and
\* easings with ease(0)=0, ease(1)=1, the zoom at time == s.end has t = 1
\* and bounds = bounds_for(s, time, track).
C1_FullZoomAtEnd ==
    Done /\ Normalised(ease_in) /\ Normalised(ease_out) =>
        \A i \in 1..Len(segments) :
            segments[i].end = time /\ Le(ZOOM_DURATION, Duration(segments[i])) =>
                /\ Z.t = One
                /\ Z.bounds = BoundsFor(segments[i], time)

\* a frame at the end of a long second segment that follows a short gap
C1_Witness ==
    /\ Done /\ Normalised(ease_in) /\ Normalised(ease_out)
    /\ Len(segments) = 2
    /\ segments[2].end = time
    /\ Le(ZOOM_DURATION, Duration(segments[2]))
    /\ Lt(Zero, Gap(2)) /\ Lt(Gap(2), ZOOM_DURATION)
    /\ segments[2].amount # One
    /\ Z.t = One

\* ---------------------------------------------------------------------
\* C2
\* ---------------------------------------------------------------------
Contiguous(i) == segments[i].start = segments[i - 1].end

\* C2 (as stated): for contiguous previous and current, t = 1 at the
\* boundary time previous.end and at every time in (current.start,
\* current.end], where the bounds blend from bounds_for(previous) to
\* bounds_for(current).  Read here with easings that satisfy ease(0)=0 and
\* ease(1)=1, the reading most favourable to the statement.
C2_NoDipEitherSide ==
    Done /\ Normalised(ease_in) /\ Normalised(ease_out) =>
        \A i \in 2..Len(segments) :
            Contiguous(i) =>
                /\ time = segments[i - 1].end => Z.t = One
                /\ Within(segments[i]) =>
                      /\ Z.t = One
                      /\ Z.bounds = Lerp(BoundsFor(segments[i - 1], time),
                                         BoundsFor(segments[i], time),
                                         Progress(ease_in, segments[i].start))

\* C2 (amended): for contiguous previous and current, t = 1 at every time
\* in (current.start, current.end], where the bounds blend from
\* bounds_for(previous) to bounds_for(current); at the boundary time
\* previous.end itself t = 1 when previous lasts at least ZOOM_DURATION and
\* ease_in(1) = 1.
C2_NoDipAfterBoundary ==
    Done =>
        \A i \in 2..Len(segments) :
            Contiguous(i) =>
                /\ ( /\ time = segments[i - 1].end
                     /\ Le(ZOOM_DURATION, Duration(segments[i - 1]))
                     /\ ease_in[One] = One ) => Z.t = One
                /\ Within(segments[i]) =>
                      /\ Z.t = One
                      /\ Z.bounds = Lerp(BoundsFor(segments[i - 1], time),
                                         BoundsFor(segments[i], time),
                                         Progress(ease_in, segments[i].start))

\* a frame half way through the blend between two contiguous segments whose
\* rectangles differ
C2_Witness ==
    /\ Done
    /\ Len(segments) = 2 /\ Contiguous(2)
    /\ Within(segments[2])
    /\ ease_in = SlowIn
    /\ time = Add(segments[2].start, Half)
    /\ BoundsFor(segments[1], time) # BoundsFor(segments[2], time)
    /\ Z.t = One
    /\ Z.bounds # BoundsFor(segments[1], time)
    /\ Z.bounds # BoundsFor(segments[2], time)

\* ---------------------------------------------------------------------
\* C3
\* ---------------------------------------------------------------------
ShortGap(i) == Lt(Zero, Gap(i)) /\ Lt(Gap(i), ZOOM_DURATION)

\* the state the zoom-out of segment i-1 has reached when segment i starts
Interrupted(i) ==
    LET out == ease_out[Clamp01(Div(Gap(i), ZOOM_DURATION))]
    IN  [t |-> Sub(One, out),
         bounds |-> Lerp(BoundsFor(segments[i - 1], segments[i].start), DefaultRect, out)]

\* interpolate(t, segs) with the track and easings of the state
Interpolate(t, segs) ==
    LET r == new_with_easing(SegmentsCursorNew(t, segs), cursor_events, ease_in, ease_out)
    IN  [t |-> r.t, bounds |-> r.bounds]

\* C3: after a gap 0 < gap < ZOOM_DURATION, at any time in (current.start,
\* current.end] t = m.t*(1 - zoom_t) + zoom_t and bounds = lerp(m.bounds,
\* bounds_for(current), zoom_t), where m is the zoom at time ==
\* current.start, which is the state the unfinished zoom-out of previous
\* had reached (not the default rectangle).
C3_ResumesInterruptedZoomOut ==
    Done =>
        \A i \in 2..Len(segments) :
            ShortGap(i) /\ Within(segments[i]) =>
                LET zoom_t == Progress(ease_in, segments[i].start)
                    m == Interpolate(segments[i].start, segments)
                IN  /\ m = Interrupted(i)
                    /\ Z.t = Add(Mul(m.t, Sub(One, zoom_t)), zoom_t)
                    /\ Z.bounds = Lerp(m.bounds, BoundsFor(segments[i], time), zoom_t)

\* a frame half way into the zoom-in that interrupts a zoom-out which had
\* not yet reached the default rectangle
C3_Witness ==
    /\ Done
    /\ Len(segments) = 2 /\ ShortGap(2) /\ Within(segments[2])
    /\ time = Add(segments[2].start, Half)
    /\ ease_in = SlowIn /\ ease_out = SlowIn
    /\ Interrupted(2).bounds # DefaultRect
    /\ Z.bounds # Lerp(DefaultRect, BoundsFor(segments[2], time), F64(1, 4))
    /\ Lt(Half, Z.t) /\ Lt(Z.t, One)

\* ---------------------------------------------------------------------
\* C4
\* ---------------------------------------------------------------------
NoCurrent == \A i \in 1..Len(segments) : ~Within(segments[i])
Ended == {i \in 1..Len(segments) : Le(segments[i].end, time)}
\* the most recently ended segment
MostRecent == CHOOSE i \in Ended : \A j \in Ended : Le(segments[j].end, segments[i].end)

\* C4: with no current segment and previous the most recently ended one,
\* t = 1 - zoom_t and bounds = lerp(bounds_for(previous, time, track),
\* default, zoom_t), zoom_t = ease_out(clamp01((time - previous.end) /
\* ZOOM_DURATION)); the focus of previous is resolved at the query time.
C4_ZoomOutTail ==
    Done /\ NoCurrent /\ Ended # {} =>
        LET previous == segments[MostRecent]
            zoom_t == Progress(ease_out, previous.end)
        IN  /\ Z.t = Sub(One, zoom_t)
            /\ Z.bounds = Lerp(BoundsFor(previous, time), DefaultRect, zoom_t)

\* half way through the zoom-out of an Auto segment while the cursor moves
C4_Witness ==
    /\ Done /\ NoCurrent /\ Ended # {}
    /\ segments[MostRecent].mode.kind = "Auto"
    /\ segments[MostRecent].amount # One
    /\ time = Add(segments[MostRecent].end, Half)
    /\ ease_out = SlowIn
    /\ BoundsFor(segments[MostRecent], time)
          # BoundsFor(segments[MostRecent], segments[MostRecent].end)
    /\ Z.t = F64(3, 4)

\* ---------------------------------------------------------------------
\* C5
\* ---------------------------------------------------------------------
\* segment i ended at least ZOOM_DURATION ago and no later segment has
\* started before time
ZoomedOutOf(i) ==
    /\ Le(Add(segments[i].end, ZOOM_DURATION), time)
    /\ \A j \in 1..Len(segments) : j > i => Le(time, segments[j].start)

\* C5: from time == s.end + ZOOM_DURATION on, until a next segment starts,
\* t = 0 and bounds = ((0,0),(1,1)), for any ease_out with ease_out(1) = 1.
C5_BackToDefault ==
    Done /\ ease_out[One] = One =>
        \A i \in 1..Len(segments) :
            ZoomedOutOf(i) => Z.t = Zero /\ Z.bounds = DefaultRect

\* exactly one ZOOM_DURATION after a magnifying segment, next segment ahead
C5_Witness ==
    /\ Done /\ ease_out[One] = One
    /\ Len(segments) = 2
    /\ ZoomedOutOf(1)
    /\ time = Add(segments[1].end, ZOOM_DURATION)
    /\ segments[1].amount # One
    /\ Z.t = Zero

\* ---------------------------------------------------------------------
\* C6
\* ---------------------------------------------------------------------
LargeGap(i) == Le(ZOOM_DURATION, Gap(i))

\* C6: after a gap >= ZOOM_DURATION, at any time in (current.start,
\* current.end] the zoom is the zoom of the same query on the list that
\* holds only current: t = ease_in(clamp01((time - current.start) /
\* ZOOM_DURATION)), bounds = lerp(default, bounds_for(current), t).
C6_SeparateSegmentsIndependent ==
    Done =>
        \A i \in 2..Len(segments) :
            LargeGap(i) /\ Within(segments[i]) =>
                LET t == Progress(ease_in, segments[i].start)
                IN  /\ Z = Interpolate(time, <<segments[i]>>)
                    /\ Z.t = t
                    /\ Z.bounds = Lerp(DefaultRect, BoundsFor(segments[i], time), t)

\* half way into a zoom-in that follows a magnifying segment after a large gap
C6_Witness ==
    /\ Done
    /\ Len(segments) = 2 /\ LargeGap(2) /\ Within(segments[2])
    /\ time = Add(segments[2].start, Half)
    /\ ease_in = SlowIn
    /\ segments[1].amount # One /\ segments[2].amount # One
    /\ BoundsFor(segments[1], time) # BoundsFor(segments[2], time)
    /\ Z.t = F64(1, 4)

\* ---------------------------------------------------------------------
\* C7
\* ---------------------------------------------------------------------
Qualifies(i) == Lt(segments[i].start, time) /\ Le(time, segments[i].end)

\* C7: SegmentsCursor::new makes s current exactly when s.start < time <=
\* s.end; at time == s.start s is not current (a first segment then yields
\* t = 0 and the default rectangle), at time == s.end it is, and at most one
\* segment qualifies.
C7_CurrentStartExcludedEndIncluded ==
    /\ Located =>
          /\ \A i \in 1..Len(segments) :
                (Unwrap(cursor).segment = Some(segments[i])) <=> Qualifies(i)
          /\ \A i \in 1..Len(segments) :
                /\ time = segments[i].start => Unwrap(cursor).segment # Some(segments[i])
                /\ time = segments[i].end => Unwrap(cursor).segment = Some(segments[i])
          /\ Cardinality({i \in 1..Len(segments) : Qualifies(i)}) <= 1
    /\ Done /\ Len(segments) >= 1 /\ time = segments[1].start =>
          Z.t = Zero /\ Z.bounds = DefaultRect

\* a cursor built at the instant where one segment ends and the next starts
C7_Witness ==
    /\ Located
    /\ Len(segments) = 2 /\ Contiguous(2)
    /\ time = segments[2].start
    /\ Unwrap(cursor).segment = Some(segments[1])

\* ---------------------------------------------------------------------
\* C8
\* ---------------------------------------------------------------------
InUnit(v) == Le(Zero, v) /\ Le(v, One)
IntoUnit(ease) == \A v \in DOMAIN ease : InUnit(ease[v])

\* C8: for every query time and segment list, and easings that map [0,1]
\* into [0,1], the t of the returned InterpolatedZoom lies in [0,1].
C8_ProgressInUnitInterval ==
    Done /\ IntoUnit(ease_in) /\ IntoUnit(ease_out) => InUnit(Z.t)

\* a resumed zoom-in whose progress is strictly inside the interval
C8_Witness ==
    /\ Done
    /\ Unwrap(frame).nested = 1
    /\ ease_in = Shifted /\ ease_out = SlowIn
    /\ Lt(Zero, Z.t) /\ Lt(Z.t, One)

\* ---------------------------------------------------------------------
\* C9
\* ---------------------------------------------------------------------
Width(r)  == Sub(r.bottom_right.x, r.top_left.x)
Height(r) == Sub(r.bottom_right.y, r.top_left.y)
Square(r) == Width(r) = Height(r) /\ Lt(Zero, Width(r))
SquareIfSome(o) == IsSome(o) => Square(Unwrap(o))

\* C9: every rectangle of the engine (bounds_for of a segment, the default
\* rectangle, the bounds of every returned InterpolatedZoom) has width equal
\* to height, both strictly positive.
C9_RectanglesSquare ==
    /\ Square(SegmentBoundsDefault)
    /\ Done =>
          /\ \A i \in 1..Len(segments) : Square(BoundsFor(segments[i], time))
          /\ Square(Z.bounds)
          /\ display_amount(Z) = Height(Z.bounds)
          /\ SquareIfSome(Unwrap(frame).prev_segment_bounds)
          /\ SquareIfSome(Unwrap(frame).segment_bounds)

\* a blended rectangle of a segment whose focus has different x and y
C9_Witness ==
    /\ Done
    /\ IsSome(Unwrap(cursor).segment)
    /\ Unwrap(cursor).segment[1].mode.kind = "Manual"
    /\ Unwrap(cursor).segment[1].amount # One
    /\ Unwrap(frame).nested = 1
    /\ Z.bounds.top_left.x # Z.bounds.top_left.y
    /\ Lt(One, Width(Z.bounds))

\* ---------------------------------------------------------------------
\* C10
\* ---------------------------------------------------------------------
\* no cursor track, or a track whose resolver has nothing to return
NoCursorData ==
    \/ cursor_events = None
    \/ /\ IsSome(cursor_events)
       /\ Unwrap(cursor_events).position_at = None
       /\ Unwrap(cursor_events).moves = <<>>

CenteredRect(amount) ==
    LET h  == Div(amount, F64(2, 1))
        lo == Sub(Half, h)
        hi == Add(Half, h)
    IN  [top_left |-> XY(lo, lo), bottom_right |-> XY(hi, hi)]

\* the rectangle of magnification a that keeps (x, y) fixed
FixedPointRect(x, y, a) ==
    [top_left |-> XY(Sub(x, Mul(x, a)), Sub(y, Mul(y, a))),
     bottom_right |-> XY(Add(Sub(x, Mul(x, a)), a), Add(Sub(y, Mul(y, a)), a))]

ExpectedWithoutCursor(s, rect) ==
    /\ s.mode.kind = "Auto" /\ NoCursorData => rect = CenteredRect(s.amount)
    /\ s.mode.kind = "Manual" => rect = FixedPointRect(s.mode.x, s.mode.y, s.amount)

\* C10: bounds_for an Auto segment without cursor data (no track, or the
\* resolver returns None) is the rectangle centred on (0.5, 0.5):
\* (0.5 - amount/2, 0.5 + amount/2) on both axes; a Manual{x,y} segment
\* uses (x,y) whatever the time and the track.
C10_MissingCursorFallsBackToCenter ==
    Done =>
        LET c == Unwrap(cursor)
            f == Unwrap(frame)
        IN  /\ IsSome(c.segment) =>
                  /\ IsSome(f.segment_bounds)
                  /\ ExpectedWithoutCursor(Unwrap(c.segment), Unwrap(f.segment_bounds))
            /\ IsSome(c.prev_segment) =>
                  /\ IsSome(f.prev_segment_bounds)
                  /\ ExpectedWithoutCursor(Unwrap(c.prev_segment),
                                           Unwrap(f.prev_segment_bounds))

\* an Auto segment evaluated on a track that holds no cursor data at all
C10_Witness ==
    /\ Done
    /\ IsSome(cursor_events)
    /\ NoCursorData
    /\ IsSome(Unwrap(cursor).segment)
    /\ Unwrap(cursor).segment[1].mode.kind = "Auto"
    /\ Unwrap(cursor).segment[1].amount = F64(2, 1)
    /\ Unwrap(frame).segment_bounds
          = Some([top_left |-> XY(F64(-1, 2), F64(-1, 2)), bottom_right |-> XY(F64(3, 2), F64(3, 2))])

\* ---------------------------------------------------------------------
\* C11
\* ---------------------------------------------------------------------
\* the track has no exact position lookup
LookupUnavailable == IsSome(cursor_events) /\ Unwrap(cursor_events).position_at = None

Samples == Unwrap(cursor_events).moves
SecondsOf(i) == Div(Samples[i].process_time_ms, F64(1000, 1))

\* the nearest sample among the indices in side, None if there is none
Nearest(side) ==
    IF side = {} THEN None
    ELSE Some(Samples[CHOOSE i \in side :
            \A j \in side :
               \/ FAbs(Sub(SecondsOf(i), time)) < FAbs(Sub(SecondsOf(j), time))
               \/ (FAbs(Sub(SecondsOf(i), time)) = FAbs(Sub(SecondsOf(j), time)) /\ i <= j)])

\* what the resolver returns for the two neighbours
FromNeighbours(b, a) ==
    IF IsSome(b) /\ IsSome(a)
    THEN LET t1 == Div(Unwrap(b).process_time_ms, F64(1000, 1))
             t2 == Div(Unwrap(a).process_time_ms, F64(1000, 1))
             fraction == Div(Sub(time, t1), Sub(t2, t1))
         IN  Some(XY(Add(Unwrap(b).x, Mul(Sub(Unwrap(a).x, Unwrap(b).x), fraction)),
                     Add(Unwrap(b).y, Mul(Sub(Unwrap(a).y, Unwrap(b).y), fraction))))
    ELSE IF IsSome(b) THEN Some(XY(Unwrap(b).x, Unwrap(b).y))
    ELSE IF IsSome(a) THEN Some(XY(Unwrap(a).x, Unwrap(a).y))
    ELSE None

StrictlyBefore == {i \in 1..Len(Samples) : SecondsOf(i) < time}
AtOrBefore     == {i \in 1..Len(Samples) : SecondsOf(i) <= time}
StrictlyAfter  == {i \in 1..Len(Samples) : SecondsOf(i) > time}

\* an Auto segment is current, so the frame resolved the cursor at time
AutoCurrent ==
    /\ IsSome(Unwrap(cursor).segment)
    /\ Unwrap(cursor).segment[1].mode.kind = "Auto"

\* the resolver of the state agrees with `expected`, and so does the
\* rectangle of the current Auto segment
ResolverReturns(expected) ==
    /\ get_smoothed_cursor_position(Unwrap(cursor_events), time, CURSOR_SMOOTHING_WINDOW)
          = expected
    /\ Unwrap(frame).segment_bounds =
          Some(IF IsSome(expected)
               THEN FixedPointRect(Unwrap(expected).x, Unwrap(expected).y,
                                   Unwrap(cursor).segment[1].amount)
               ELSE CenteredRect(Unwrap(cursor).segment[1].amount))

\* C11 (as stated): without exact lookup the resolver takes the nearest
\* sample strictly before time and the nearest strictly after time (a sample
\* exactly at time belongs to neither side); both: their linear
\* interpolation by elapsed-time fraction; one: that sample; neither: None.
C11_StrictNeighbours ==
    Done /\ LookupUnavailable /\ AutoCurrent =>
        ResolverReturns(FromNeighbours(Nearest(StrictlyBefore), Nearest(StrictlyAfter)))

\* C11 (amended): without exact lookup the resolver takes the nearest sample
\* at or before time (a sample exactly at time is the sample before) and the
\* nearest strictly after time; both: their linear interpolation by
\* elapsed-time fraction; one: that sample; neither: None.
C11_NeighboursAtOrBefore ==
    Done /\ LookupUnavailable /\ AutoCurrent =>
        ResolverReturns(FromNeighbours(Nearest(AtOrBefore), Nearest(StrictlyAfter)))

\* a magnifying Auto segment evaluated at the very time of a sample, with a
\* later sample at another position
C11_Witness ==
    /\ Done /\ LookupUnavailable
    /\ \E i \in 1..Len(Samples) : SecondsOf(i) = time
    /\ StrictlyAfter # {}
    /\ Nearest(AtOrBefore) # Nearest(StrictlyAfter)
    /\ AutoCurrent
    /\ Unwrap(cursor).segment[1].amount # One
    /\ Unwrap(frame).segment_bounds
          = Some(FixedPointRect(Unwrap(Nearest(AtOrBefore)).x,
                                Unwrap(Nearest(AtOrBefore)).y,
                                Unwrap(cursor).segment[1].amount))

\* ---------------------------------------------------------------------
\* C12
\* ---------------------------------------------------------------------
\* the cursor of the nested evaluation for segment i
NestedCursor(i) == SegmentsCursorNew(segments[i].start, segments)

\* C12: for every sorted, non-overlapping list, chains of three or more
\* short-gap segments included, an evaluation makes at most one nested
\* evaluation: the nested cursor at time == current.start has no current
\* segment (start excluded) and previous as the ended one, so the nested
\* call takes the zoom-out arm and nests no further.
C12_NestingAtMostOne ==
    /\ Done => Unwrap(frame).nested <= 1
    /\ Done => (Unwrap(frame).nested = 1 <=>
                  \E i \in 2..Len(segments) : Within(segments[i]) /\ ShortGap(i))
    /\ \A i \in 2..Len(segments) :
          ShortGap(i) =>
              /\ NestedCursor(i).segment = None
              /\ NestedCursor(i).prev_segment = Some(segments[i - 1])

\* a frame inside the third segment of a chain of three short gaps
C12_Witness ==
    /\ Done
    /\ Len(segments) = 3
    /\ ShortGap(2) /\ ShortGap(3)
    /\ Within(segments[3])
    /\ Unwrap(frame).nested = 1

\* ---------------------------------------------------------------------
\* C13
\* ---------------------------------------------------------------------
\* the focus point bounds_for resolves for s at the time of the frame
FocusOf(s) == FocusPosition(s, time, cursor_events)

InFrame(f) == Le(Zero, f.x) /\ Le(f.x, One) /\ Le(Zero, f.y) /\ Le(f.y, One)

\* rect is anchored at f with magnification a
AnchoredAt(rect, f, a) ==
    /\ rect.top_left = XY(Sub(f.x, Mul(f.x, a)), Sub(f.y, Mul(f.y, a)))
    /\ rect.bottom_right = XY(Add(rect.top_left.x, a), Add(rect.top_left.y, a))
    /\ Add(rect.top_left.x, Mul(f.x, a)) = f.x
    /\ Add(rect.top_left.y, Mul(f.y, a)) = f.y
    /\ a = One => rect = DefaultRect

AnchoredIfSome(o, s) ==
    IsSome(o) /\ IsSome(s) /\ InFrame(FocusOf(Unwrap(s))) /\ Le(One, Unwrap(s).amount) =>
        AnchoredAt(Unwrap(o), FocusOf(Unwrap(s)), Unwrap(s).amount)

\* C13: for a focus f in [0,1]x[0,1] and amount a >= 1 the rectangle of
\* bounds_for has top_left = f - f*a, bottom_right = top_left + (a, a), and
\* keeps the focus fixed: top_left + f*a = f; with a = 1 it is the default
\* rectangle ((0,0),(1,1)).
C13_FocusStaysFixed ==
    Done =>
        /\ AnchoredIfSome(Unwrap(frame).segment_bounds, Unwrap(cursor).segment)
        /\ AnchoredIfSome(Unwrap(frame).prev_segment_bounds, Unwrap(cursor).prev_segment)

\* the rectangle of a magnifying Auto segment whose focus follows the cursor
\* to a point off the centre and off the diagonal
C13_Witness ==
    /\ Done
    /\ AutoCurrent
    /\ Unwrap(cursor).segment[1].amount = F64(2, 1)
    /\ FocusOf(Unwrap(cursor).segment[1]) = XY(Half, F64(1, 4))
    /\ Unwrap(frame).segment_bounds
          = Some([top_left |-> XY(F64(-1, 2), F64(-1, 4)),
                  bottom_right |-> XY(F64(3, 2), F64(7, 4))])

====
